---- MODULE Spec2Model ----
(***************************************************************************)
(* extract_nhmmer_tblout: src/main.rs.                                     *)
(*                                                                         *)
(* main() copies the FASTA file into a temporary directory, runs           *)
(* `esl-sfetch --index` on the copy, then walks the nhmmer tblout report:  *)
(* every record whose e-value is not above the threshold is turned into    *)
(* one `esl-sfetch -c from..to <fasta> <target>` command, the FASTA        *)
(* records on that command's standard output are renamed and written to    *)
(* standard output.                                                        *)
(*                                                                         *)
(* The model follows the control flow of main() statement group by         *)
(* statement group (pc), keeps the loop's locals of the iteration that is  *)
(* running or has just finished (r, eval, ali_from_to, extract_sequences,  *)
(* pos), the records written to standard output (out), and the command     *)
(* lines handed to the operating system (indexCalls, calls).               *)
(***************************************************************************)
EXTENDS Integers, Sequences, FiniteSets, TLC

(***************************************************************************)
(* Bounds of the model.                                                    *)
(***************************************************************************)
\* records read from the report in one run
MaxHits == 2
\* FASTA records on the standard output of one extraction command
MaxSub == 2

(***************************************************************************)
(* Option<T>: None is the empty tuple, Some(v) the one-element tuple.      *)
(***************************************************************************)
None == <<>>
Some(v) == <<v>>
IsSome(o) == o # None
Unwrap(o) == o[1]
Opt(S) == {None} \cup {Some(v) : v \in S}

(***************************************************************************)
(* f32 values are kept as decimals m * 10^x with m > 0 not divisible by    *)
(* 10: the shortest decimal that round-trips, which is what both the       *)
(* comparison result and the {:e} formatting are determined by.  Only      *)
(* finite positive values are covered (no zero, infinity or NaN).          *)
(***************************************************************************)
Dec(m, x) == [m |-> m, x |-> x]

RECURSIVE Pow10(_)
Pow10(n) == IF n <= 0 THEN 1 ELSE 10 * Pow10(n - 1)

Min(a, b) == IF a < b THEN a ELSE b

\* a > b on f32 (main.rs:157 uses PartialOrd::gt)
FloatGt(a, b) ==
    LET lo == Min(a.x, b.x)
    IN  a.m * Pow10(a.x - lo) > b.m * Pow10(b.x - lo)

(***************************************************************************)
(* Display of integers ({} on i32) and LowerExp of floats ({:e} on f32).   *)
(***************************************************************************)
DigitChar(d) == <<"0", "1", "2", "3", "4", "5", "6", "7", "8", "9">>[d + 1]

RECURSIVE NatToString(_)
NatToString(n) ==
    IF n < 10 THEN DigitChar(n)
    ELSE NatToString(n \div 10) \o DigitChar(n % 10)

IntToString(n) == IF n < 0 THEN "-" \o NatToString(-n) ELSE NatToString(n)

RECURSIVE NumDigits(_)
NumDigits(n) == IF n < 10 THEN 1 ELSE 1 + NumDigits(n \div 10)

\* the low `w` decimal digits of n, zero-padded
RECURSIVE LowDigits(_, _)
LowDigits(n, w) ==
    IF w = 0 THEN "" ELSE LowDigits(n \div 10, w - 1) \o DigitChar(n % 10)

\* {:e}: first digit, then "." and the other digits when there are any,
\* then "e" and the decimal exponent of the first digit
LowerExp(e) ==
    LET n == NumDigits(e.m)
    IN  DigitChar(e.m \div Pow10(n - 1))
        \o (IF n = 1 THEN "" ELSE "." \o LowDigits(e.m, n - 1))
        \o "e" \o IntToString(e.x + n - 1)

(***************************************************************************)
(* Paths: an absolute flag and the components.                             *)
(***************************************************************************)
Path(abs, parts) == [abs |-> abs, parts |-> parts]

\* Path::join: an absolute argument replaces the receiver
Join(base, p) ==
    IF p.abs THEN p ELSE Path(base.abs, base.parts \o p.parts)

\* Path::file_name: the last component
FileName(p) == Path(FALSE, <<p.parts[Len(p.parts)]>>)

(***************************************************************************)
(* Inputs of a run.                                                        *)
(***************************************************************************)
\* --e-value-threshold (default 0.00001)
Thresholds == {Dec(1, -5)}
\* --species-id (default "")
SpeciesIds == {"", "Sp001"}
\* the FASTA argument, or the target file of the report
FastaPaths == {Path(FALSE, <<"data", "genome.fa.gz">>)}
\* tempdir(): an absolute path
TmpDir == Path(TRUE, <<"tmp", "x1">>)

TargetNames == {"chr1", "chr2"}
EValues == {Dec(32, -10), Dec(1, -5), Dec(15, -6), Dec(1, -3)}
Coords == {100, 500}

\* what hmm_tblout's record iterator yields: an error, or a record whose
\* e_value(), ali_from() and ali_to() are Options and whose target_name()
\* is a plain string
ReadError == [kind |-> "err"]
Records ==
    [kind : {"ok"}, target_name : TargetNames, e_value : Opt(EValues),
     ali_from : Opt(Coords), ali_to : Opt(Coords)]
ReaderItems == {ReadError} \cup Records
NoRecord == [kind |-> "none"]

\* what noodles' FASTA reader yields for one record of the command's
\* standard output: a record (its name valid UTF-8 or not) or an error
SubNames == {"chr1/100-500"}
SubRecords ==
    {[kind |-> "ok", name |-> n] : n \in SubNames}
    \cup {[kind |-> "nonutf8", name |-> ""], [kind |-> "bad", name |-> ""]}

RECURSIVE SeqsUpTo(_, _)
SeqsUpTo(S, n) ==
    IF n = 0 THEN {<<>>}
    ELSE LET shorter == SeqsUpTo(S, n - 1)
         IN  shorter \cup {Append(s, e) : s \in {t \in shorter : Len(t) = n - 1}, e \in S}

\* std::process::Output of a command that ran: exit status and stdout
Outputs == [status : {0, 1}, stdout : SeqsUpTo(SubRecords, MaxSub)]
NoOutput == [status |-> -1, stdout |-> <<>>]

VARIABLES
    pc,                 \* position in main()
    error,              \* the error main() returns, "" while there is none
    e_value_threshold,  \* main.rs:79
    species_id,         \* main.rs:83
    species_arg,        \* the --species-id value the run was started with
    fasta,              \* main.rs:96
    new_fasta_path,     \* main.rs:108, the file the copy is written to
    new_fasta_location, \* main.rs:143
    index_fasta,        \* main.rs:146, exit status of the index command
    indexCalls,         \* `esl-sfetch --index` command lines launched
    running,            \* child processes launched and not yet waited for
    k,                  \* records the report reader has yielded
    r,                  \* main.rs:153, the record of the current iteration
    ali_from_to,        \* main.rs:162
    calls,              \* `esl-sfetch -c` command lines launched in this iteration
    extract_sequences,  \* main.rs:164
    pos,                \* next record of parsed_fasta.records()
    outAtRead,          \* standard output as it was when r was read
    out                 \* records written to standard output

vars ==
    <<pc, error, e_value_threshold, species_id, species_arg, fasta, new_fasta_path,
      new_fasta_location, index_fasta, indexCalls, running, k, r, ali_from_to,
      calls, extract_sequences, pos, outAtRead, out>>

NoPath == Path(FALSE, <<>>)

Init ==
    /\ pc = "start"
    /\ error = ""
    /\ e_value_threshold \in Thresholds
    /\ species_arg \in SpeciesIds
    /\ species_id = species_arg
    /\ fasta \in FastaPaths
    /\ new_fasta_path = NoPath
    /\ new_fasta_location = NoPath
    /\ index_fasta = -1
    /\ indexCalls = <<>>
    /\ running = 0
    /\ k = 0
    /\ r = NoRecord
    /\ ali_from_to = ""
    /\ calls = <<>>
    /\ extract_sequences = NoOutput
    /\ pos = 1
    /\ outAtRead = <<>>
    /\ out = <<>>

(***************************************************************************)
(* The pure steps of main().                                               *)
(***************************************************************************)
\* a filter that drops the hit whose e-value equals the threshold
KeepExclusive(eval, threshold) == FloatGt(threshold, eval)

\* main.rs:157: `if eval > e_value_threshold { continue; }`
Keep(eval, threshold) == ~FloatGt(eval, threshold)

\* main.rs:162
RangeQuery(from, to) == IntToString(from) \o ".." \o IntToString(to)

\* the header of an earlier scheme: species tag and name, no e-value
NewNameNoEvalue(species, eval, append_name) ==
    IF species = "" THEN append_name ELSE species \o ":" \o append_name

\* main.rs:180-184
NewName(species, eval, append_name) ==
    IF species = ""
    THEN append_name \o ":E" \o LowerExp(eval)
    ELSE species \o ":E" \o LowerExp(eval) \o ":" \o append_name

\* a join that appends its argument whether or not it is absolute
FastaLocationAppended(tmpdir, path) == Path(tmpdir.abs, tmpdir.parts \o path.parts)

\* main.rs:143
FastaLocation(tmpdir, path) == Join(tmpdir, path)

\* a reader that takes empty output for a broken FASTA stream
NextFastaEmptyIsError(stdout, p) ==
    IF Len(stdout) = 0 THEN [kind |-> "bad", name |-> ""]
    ELSE IF p > Len(stdout) THEN [kind |-> "end", name |-> ""] ELSE stdout[p]

\* a reader that stops one record early
NextFastaStopsEarly(stdout, p) ==
    IF p >= Len(stdout) THEN [kind |-> "end", name |-> ""] ELSE stdout[p]

\* main.rs:176: the next item of parsed_fasta.records() over the bytes
NextFasta(stdout, p) ==
    IF p > Len(stdout) THEN [kind |-> "end", name |-> ""] ELSE stdout[p]

\* a writer that puts the record in front of what was written
WriteRecordInFront(o, rec) == <<rec>> \o o

\* a writer that starts standard output afresh for every record
WriteRecordTruncating(o, rec) == <<rec>>

\* main.rs:189: the writer appends the record to standard output
WriteRecord(o, rec) == Append(o, rec)

Locals ==
    <<r, ali_from_to, calls, extract_sequences, pos, outAtRead>>
Config ==
    <<e_value_threshold, species_id, species_arg, fasta>>
Files ==
    <<new_fasta_path, new_fasta_location>>

(***************************************************************************)
(* main.rs:88-140: tempdir, open the report, copy the FASTA file.          *)
(***************************************************************************)
Materialize(ok) ==
    /\ pc = "start"
    /\ IF ok
       THEN /\ new_fasta_path' = Join(TmpDir, FileName(fasta))
            /\ pc' = "index"
            /\ error' = error
       ELSE /\ new_fasta_path' = new_fasta_path
            /\ pc' = "err"
            /\ error' = "setup"
    /\ UNCHANGED <<Config, new_fasta_location, index_fasta, indexCalls,
                   running, k, Locals, out>>

(***************************************************************************)
(* main.rs:142-149: Command::output() of `esl-sfetch --index`: the spawn,  *)
(* then the wait.  Only an io::Error is propagated by `?`; the exit status *)
(* is bound to _index_fasta and never read.                                *)
(***************************************************************************)
SpawnIndex(spawned) ==
    /\ pc = "index"
    /\ new_fasta_location' = FastaLocation(TmpDir, new_fasta_path)
    /\ indexCalls' = Append(indexCalls, new_fasta_location')
    /\ IF spawned
       THEN pc' = "indexing" /\ running' = running + 1 /\ error' = error
       ELSE pc' = "err" /\ running' = running /\ error' = "index"
    /\ UNCHANGED <<Config, new_fasta_path, index_fasta, k, Locals, out>>

IndexReturns(status) ==
    /\ pc = "indexing"
    /\ running' = running - 1
    /\ index_fasta' = status
    /\ pc' = "loop"
    /\ UNCHANGED <<error, Config, Files, indexCalls, k, Locals, out>>

(***************************************************************************)
(* main.rs:152-162: the next record of the report, the filter and the      *)
(* range string.                                                           *)
(***************************************************************************)
NextRecord(item) ==
    /\ pc = "loop"
    /\ k < MaxHits
    /\ k' = k + 1
    /\ r' = item
    /\ calls' = <<>>
    /\ extract_sequences' = NoOutput
    /\ pos' = 1
    /\ outAtRead' = out
    /\ error' = IF item.kind = "err" THEN "record" ELSE error
    /\ IF item.kind = "err"
       THEN pc' = "err" /\ ali_from_to' = ""                 \* record?
       ELSE IF ~IsSome(item.e_value)
       THEN pc' = "panic" /\ ali_from_to' = ""               \* e_value().unwrap()
       ELSE IF ~Keep(Unwrap(item.e_value), e_value_threshold)
       THEN pc' = "loop" /\ ali_from_to' = ""                \* continue
       ELSE IF ~IsSome(item.ali_from) \/ ~IsSome(item.ali_to)
       THEN pc' = "panic" /\ ali_from_to' = ""               \* ali_*().unwrap()
       ELSE /\ pc' = "spawn"
            /\ ali_from_to' = RangeQuery(Unwrap(item.ali_from), Unwrap(item.ali_to))
    /\ UNCHANGED <<Config, Files, index_fasta, indexCalls, running, out>>

\* main.rs:152: the iterator is exhausted
EndOfReport ==
    /\ pc = "loop"
    /\ pc' = "close"
    /\ UNCHANGED <<error, Config, Files, index_fasta, indexCalls, running, k, Locals, out>>

(***************************************************************************)
(* main.rs:164-169: Command::output() of `esl-sfetch -c`.  As for the      *)
(* index command only an io::Error ends the run.                           *)
(***************************************************************************)
SpawnExtract(spawned) ==
    /\ pc = "spawn"
    /\ calls' = Append(calls, [range  |-> ali_from_to,
                               file   |-> new_fasta_location,
                               target |-> r.target_name])
    /\ IF spawned
       THEN pc' = "waiting" /\ running' = running + 1 /\ error' = error
       ELSE pc' = "err" /\ running' = running /\ error' = "extract"
    /\ UNCHANGED <<Config, Files, index_fasta, indexCalls, k, r, ali_from_to,
                   extract_sequences, pos, outAtRead, out>>

ExtractReturns(output) ==
    /\ pc = "waiting"
    /\ running' = running - 1
    /\ extract_sequences' = output
    /\ pos' = 1
    /\ pc' = "parse"
    /\ UNCHANGED <<error, Config, Files, index_fasta, indexCalls, k, r, ali_from_to,
                   calls, outAtRead, out>>

(***************************************************************************)
(* main.rs:176-190: one turn of the loop over the extracted records.       *)
(***************************************************************************)
EmitRecord(written) ==
    /\ pc = "parse"
    /\ LET sub == NextFasta(extract_sequences.stdout, pos)
       IN  CASE sub.kind = "end" ->
                  pc' = "loop" /\ UNCHANGED <<error, pos, out>>
             [] sub.kind = "bad" ->                          \* record?
                  pc' = "err" /\ error' = "fasta" /\ UNCHANGED <<pos, out>>
             [] sub.kind = "nonutf8" ->                      \* from_utf8(..)?
                  pc' = "err" /\ error' = "utf8" /\ UNCHANGED <<pos, out>>
             [] sub.kind = "ok" ->
                  IF written
                  THEN /\ out' = WriteRecord(out,
                                    [name |-> NewName(species_id, Unwrap(r.e_value), sub.name),
                                     hit  |-> k,
                                     sub  |-> pos,
                                     orig |-> sub.name,
                                     eval |-> Unwrap(r.e_value)])
                       /\ pos' = pos + 1
                       /\ pc' = "parse"
                       /\ error' = error
                  ELSE /\ pc' = "err"                        \* write_record(..)?
                       /\ error' = "write"
                       /\ UNCHANGED <<pos, out>>
    /\ UNCHANGED <<Config, Files, index_fasta, indexCalls, running, k, r,
                   ali_from_to, calls, extract_sequences, outAtRead>>

(***************************************************************************)
(* main.rs:193-196                                                         *)
(***************************************************************************)
Close(ok) ==
    /\ pc = "close"
    /\ pc' = IF ok THEN "done" ELSE "err"
    /\ error' = IF ok THEN error ELSE "close"
    /\ UNCHANGED <<Config, Files, index_fasta, indexCalls, running, k, Locals, out>>

Next ==
    \/ \E ok \in BOOLEAN : Materialize(ok)
    \/ \E spawned \in BOOLEAN : SpawnIndex(spawned)
    \/ \E status \in {0, 1} : IndexReturns(status)
    \/ \E item \in ReaderItems : NextRecord(item)
    \/ EndOfReport
    \/ \E spawned \in BOOLEAN : SpawnExtract(spawned)
    \/ \E output \in Outputs : ExtractReturns(output)
    \/ \E written \in BOOLEAN : EmitRecord(written)
    \/ \E ok \in BOOLEAN : Close(ok)

Spec == Init /\ [][Next]_vars

Aborted == pc \in {"err", "panic"}

(***************************************************************************)
(* What the properties are stated in.                                      *)
(***************************************************************************)
\* the decimal text of the coordinates and e-values of the input sets,
\* written out by hand
CoordText(c) == CASE c = 100 -> "100" [] c = 500 -> "500"
EValueText(e) ==
    CASE e = Dec(32, -10) -> "3.2e-9"
      [] e = Dec(1, -5)   -> "1e-5"
      [] e = Dec(15, -6)  -> "1.5e-5"
      [] e = Dec(1, -3)   -> "1e-3"

\* r is a record with every required field
WellFormed == r.kind = "ok" /\ IsSome(r.e_value) /\ IsSome(r.ali_from) /\ IsSome(r.ali_to)
\* r is a report line the reader rejected, or a record that lacks a field
Malformed == r.kind = "err" \/ (r.kind = "ok" /\ ~WellFormed)
\* r passed the filter and has its coordinates
Surviving == WellFormed /\ ~FloatGt(Unwrap(r.e_value), e_value_threshold)

\* the record the program has to write for sub-record j of the current hit
Rewritten(j) ==
    LET sub == extract_sequences.stdout[j]
        e   == Unwrap(r.e_value)
    IN  [name |-> IF species_arg = ""
                  THEN sub.name \o ":E" \o EValueText(e)
                  ELSE species_arg \o ":E" \o EValueText(e) \o ":" \o sub.name,
         hit  |-> k, sub |-> j, orig |-> sub.name, eval |-> e]

\* C1: a hit with e_value <= threshold gets exactly one extraction command,
\* for its target_name and the range "{ali_from}..{ali_to}" with the
\* coordinates as they stand in the record; a hit with e_value > threshold
\* gets none.
C1_OneCallPerKeptHit ==
    WellFormed =>
        IF FloatGt(Unwrap(r.e_value), e_value_threshold)
        THEN calls = <<>> /\ pc \notin {"spawn", "waiting", "parse"}
        ELSE \/ pc = "spawn" /\ calls = <<>>
             \/ /\ pc # "spawn"
                /\ calls = <<[range  |-> CoordText(Unwrap(r.ali_from)) \o ".."
                                          \o CoordText(Unwrap(r.ali_to)),
                              file   |-> new_fasta_location,
                              target |-> r.target_name]>>

\* a reverse-strand hit whose e-value equals the threshold has got its command
C1_Witness ==
    /\ pc = "parse"
    /\ r.kind = "ok"
    /\ r.e_value = Some(e_value_threshold)
    /\ r.ali_from = Some(500) /\ r.ali_to = Some(100)
    /\ r.target_name = "chr2"
    /\ Len(calls) = 1
    /\ calls[1].range = "500..100"
    /\ calls[1].target = "chr2"

\* C2: a failure of the extraction command (it cannot be run, or it exits
\* with a non-zero status) ends the run in an error, with no record written
\* for the hit.
C2_CommandFailureAborts ==
    (calls # <<>> /\ pc # "waiting" /\ extract_sequences.status # 0) =>
        (pc = "err" /\ error = "extract" /\ out = outAtRead)

\* C3: a record that is rejected by the reader or lacks a required field
\* ends the run, whatever its e-value.
C3_MalformedRecordAborts == Malformed => Aborted

\* C4: the records on standard output are in report order: hit numbers never
\* decrease along the output, the sub-records of one hit follow each other
\* in the order of the command's output without gap or repetition.
C4_OutputInHitOrder ==
    /\ \A i \in 1..Len(out) :
          LET prevHit == IF i = 1 THEN 0 ELSE out[i - 1].hit
              prevSub == IF i = 1 THEN 0 ELSE out[i - 1].sub
          IN  \/ out[i].hit > prevHit /\ out[i].sub = 1
              \/ out[i].hit = prevHit /\ out[i].sub = prevSub + 1
    /\ \A i \in 1..Len(out) : out[i].hit <= k
    /\ Surviving => Len(out) = Len(outAtRead) + pos - 1

\* three records of two hits have been written
C4_Witness ==
    /\ Len(out) = 3
    /\ out[1].hit = 1 /\ out[2].hit = 1 /\ out[3].hit = 2
    /\ out[1].name = out[2].name

\* C5: the identifier of every written record is
\* "{original_name}:E{e_value}" when the species tag the run was started
\* with is empty and "{species_id}:E{e_value}:{original_name}" otherwise,
\* and the species tag in use is the one the run was started with.
C5_HeaderFromTagEvalueName ==
    /\ species_id = species_arg
    /\ \A i \in 1..Len(out) :
          out[i].name =
              IF species_arg = ""
              THEN out[i].orig \o ":E" \o EValueText(out[i].eval)
              ELSE species_arg \o ":E" \o EValueText(out[i].eval) \o ":" \o out[i].orig

\* the second hit's record carries the tag once, after a first hit's record
C5_Witness ==
    /\ Len(out) = 2
    /\ out[1].hit = 1
    /\ out[1].name = "Sp001:E1e-5:chr1/100-500"
    /\ out[2].hit = 2
    /\ out[2].name = "Sp001:E3.2e-9:chr1/100-500"

\* the reader can hand out a record that survives the filter
CanReadSurvivor ==
    ENABLED (\E item \in Records : NextRecord(item) /\ pc' = "spawn")

\* C6: an extraction command that succeeds with empty output yields no
\* record and no error, and the loop goes on to the next record, whose
\* extraction command is still issued.
C6_EmptyOutputContinues ==
    (extract_sequences.status = 0 /\ extract_sequences.stdout = <<>>) =>
        /\ out = outAtRead
        /\ pc \in {"parse", "loop", "close", "done", "err"}
        /\ pc = "err" => error = "close"
        /\ (pc = "loop" /\ k < MaxHits) => CanReadSurvivor

\* the loop is back at the reader after a command that returned nothing
C6_Witness ==
    /\ pc = "loop"
    /\ k < MaxHits
    /\ extract_sequences.status = 0
    /\ extract_sequences.stdout = <<>>
    /\ Len(calls) = 1

\* C7: once the loop over the report is reached the index command has been
\* launched exactly once, on the copy of the sequence file, and has
\* returned; every extraction command names that same file.
C7_IndexOnceBeforeLoop ==
    /\ Len(indexCalls) <= 1
    /\ (k > 0 \/ calls # <<>> \/ pc \in {"loop", "spawn", "waiting", "parse", "close", "done"}) =>
          /\ indexCalls = <<new_fasta_path>>
          /\ index_fasta # -1
          /\ pc # "indexing"
    /\ \A i \in 1..Len(calls) : calls[i].file = new_fasta_path

\* an extraction command is running on the indexed copy
C7_Witness ==
    /\ pc = "waiting"
    /\ index_fasta = 0
    /\ indexCalls = <<Path(TRUE, <<"tmp", "x1", "genome.fa.gz">>)>>
    /\ calls[1].file = Path(TRUE, <<"tmp", "x1", "genome.fa.gz">>)

\* C8: when the index command exits with a non-zero status or cannot be
\* launched, the run ends in an error before the loop: no record is read,
\* no extraction command is issued, nothing is written.
C8_IndexFailureAborts ==
    (index_fasta > 0 \/ error = "index") =>
        /\ pc = "err"
        /\ k = 0
        /\ calls = <<>>
        /\ out = <<>>

\* the reader can be asked for the next record
CanRead == ENABLED (\E item \in ReaderItems : NextRecord(item))

\* C9: the next record is read only when the current one is done with: no
\* command is running, and a surviving hit has had its one command and
\* every record of that command's output written; never is more than one
\* command running.
C9_OneHitAtATime ==
    /\ running \in {0, 1}
    /\ running = 1 <=> pc \in {"indexing", "waiting"}
    /\ (CanRead /\ k > 0) =>
          /\ running = 0
          /\ Surviving =>
                /\ Len(calls) = 1
                /\ pos = Len(extract_sequences.stdout) + 1
                /\ Len(out) = Len(outAtRead) + Len(extract_sequences.stdout)
                /\ \A j \in 1..Len(extract_sequences.stdout) :
                      out[Len(outAtRead) + j].orig = extract_sequences.stdout[j].name

\* the reader is about to be asked again after a hit with two records
C9_Witness ==
    /\ pc = "loop"
    /\ k = 1
    /\ k < MaxHits
    /\ Len(extract_sequences.stdout) = 2
    /\ Len(out) = 2

\* C10: when the run has ended in an error or a panic, standard output is
\* what it was when the failing hit was read, followed by the rewritten
\* sub-records of that hit that precede the failing one; nothing written
\* before is missing or changed.
C10_AbortedOutputIsPrefix ==
    Aborted =>
        /\ Len(out) = Len(outAtRead) + pos - 1
        /\ \A i \in 1..Len(outAtRead) : out[i] = outAtRead[i]
        /\ \A j \in 1..(pos - 1) : out[Len(outAtRead) + j] = Rewritten(j)
        /\ \A i \in 1..Len(outAtRead) : outAtRead[i].hit < k

\* the second hit's command output broke off after one good record
C10_Witness ==
    /\ pc = "err"
    /\ error = "fasta"
    /\ k = 2
    /\ pos = 2
    /\ Len(outAtRead) = 1
    /\ Len(out) = 2

====
